---- MODULE Spec2Model ----
(***************************************************************************)
(* A model of SimpleParser (src/parser/parser.py): the lexer Parser.split, *)
(* the resolver Parser.parse and the evaluator ParsedExpression.__call__.  *)
(*                                                                         *)
(* Python values are modelled as follows.  A str is a TLA+ string.  A list *)
(* is a sequence; the list object `precalculated` and every caller's       *)
(* calc_stack live in `heap`, so that aliasing is visible.  An element of  *)
(* tokens_without_braces is either an int or a reference to a token object *)
(* (VariableToken and OperatorToken define no __eq__, so `==` on them is   *)
(* identity: a token object is named by its position in `tokens`).  bool   *)
(* is a subclass of int in Python (True == 1, False == 0), so the values   *)
(* of the operator functions are integers.                                 *)
(***************************************************************************)
EXTENDS Integers, Sequences, FiniteSets, TLC

(***************************************************************************)
(* Bounds of the model.                                                    *)
(***************************************************************************)
\* longest token sequence handed to parse in Spec
MaxTokens == 5
\* longest well-formed expression handed to parse in SpecWF
MaxExprLen == 7
\* longest token sequence parsed and then invoked in SpecCall
MaxCallTokens == 5
\* longest text handed to split in SpecSplit
MaxText == 4

VARIABLES
    tokens,                 \* parse: the result of self.split(s)
    pc,                     \* parse: "scan", "resolve", "parsed", "raised"; split: "split", "split_done"
    i,                      \* parse: the index of the first loop
    open_braces,
    close_braces,
    operators_data,
    tokens_without_braces,
    calculation_order,
    operators_with_arguments, \* after the return: ParsedExpression.operations
    calculation_index,
    raised,                 \* the exception parse raised, "" when none
    heap,                   \* list objects: "precalculated" and the callers' calc stacks
    returned,               \* what parse returned (a snapshot taken at the return)
    call,                   \* per caller: the frame of ParsedExpression.__call__
    s,                      \* split: the text
    operators_signs,        \* split: the sign table, in dict insertion order
    current_token,          \* split: the pending token text
    ret,                    \* split: the tokens emitted so far
    n                       \* split: characters of s + " " consumed so far

parseVars == <<tokens, pc, i, open_braces, close_braces, operators_data,
               tokens_without_braces, calculation_order,
               operators_with_arguments, calculation_index, raised, returned>>
splitVars == <<s, operators_signs, current_token, ret, n>>
vars == <<parseVars, heap, call, splitVars>>

(***************************************************************************)
(* Operators (class Operator, and the table of class Defaults).            *)
(***************************************************************************)
Operator(name, operator_type, signs, priority) ==
    [name |-> name, type |-> operator_type, signs |-> signs, priority |-> priority]

mul == Operator("mul", 2, <<"*">>, 1)
minus == Operator("minus", 2, <<"-">>, 2)
not_op == Operator("not", 1, <<"!", "~">>, 4)
impl == Operator("impl", 2, <<"->">>, 7)

\* the operators the model registers, by name
OperatorOf(name) ==
    CASE name = "mul" -> mul
      [] name = "minus" -> minus
      [] name = "not" -> not_op
      [] name = "impl" -> impl

\* Operator.func applied to its arguments
Func(name, args) ==
    CASE name = "mul" -> args[1] * args[2]
      [] name = "minus" -> args[1] - args[2]
      [] name = "not" -> IF args[1] = 0 THEN 1 ELSE 0
      [] name = "impl" -> IF args[1] = 0 THEN 1 ELSE args[2]

(***************************************************************************)
(* Tokens.                                                                 *)
(***************************************************************************)
OPEN == 1
CLOSE == -1

BraceToken(which) ==
    [type |-> "BraceToken", which |-> which, operator |-> "", name |-> "", value |-> 0]
OperatorToken(operator) ==
    [type |-> "OperatorToken", which |-> 0, operator |-> operator, name |-> "", value |-> 0]
VariableToken(name) ==
    [type |-> "VariableToken", which |-> 0, operator |-> "", name |-> name, value |-> 0]
ConstantToken(value) ==
    [type |-> "ConstantToken", which |-> 0, operator |-> "", name |-> "", value |-> value]

(***************************************************************************)
(* Python lists: indexing with wrap-around of negative indexes.            *)
(***************************************************************************)
\* whether list[k] is an IndexError
PyOutOfRange(list, k) == k >= Len(list) \/ k < -Len(list)
\* the position (from 0) that list[k] names
PyPos(list, k) == IF k < 0 THEN Len(list) + k ELSE k
PyGet(list, k) == list[PyPos(list, k) + 1]
PySet(list, k, v) == [list EXCEPT ![PyPos(list, k) + 1] = v]

\* an element of tokens_without_braces: an int, or the token object tokens[tok]
IntSlot(k) == [isint |-> TRUE, int |-> k, tok |-> 0]
TokenSlot(t) == [isint |-> FALSE, int |-> 0, tok |-> t]

(***************************************************************************)
(* Parser.parse, first loop (lines 173-189): one token per step.           *)
(***************************************************************************)
Callers == {"c1", "c2"}
Objects == {"precalculated"} \cup Callers

precalculated == heap["precalculated"]

\* the names a caller may bind, and a name that is no key of **kwargs
VarNames == {"a"}
Unbound == [has |-> FALSE, value |-> 0]

\* a caller that has not called yet
IdleFrame == [pc |-> "idle", kwargs |-> [v \in VarNames |-> Unbound], calc_stack |-> "",
              ip |-> 0, result |-> 0, raised |-> ""]

\* the state in which parse(s) starts, self.split(s) having returned one of `inputs`
InitParse(inputs) ==
    /\ tokens \in inputs
    /\ pc = "scan"
    /\ i = 0
    /\ open_braces = 0
    /\ close_braces = 0
    /\ operators_data = <<>>
    /\ tokens_without_braces = <<>>
    /\ calculation_order = <<>>
    /\ operators_with_arguments = <<>>
    /\ calculation_index = 0
    /\ raised = ""
    /\ returned = [operations |-> <<>>, precalculated |-> <<>>]
    /\ heap = [o \in Objects |-> <<>>]
    /\ call = [c \in Callers |-> IdleFrame]
    /\ s = ""
    /\ operators_signs = <<>>
    /\ current_token = ""
    /\ ret = <<>>
    /\ n = 0

\* the position the code records for the operator at tokens[i] (line 182)
OperatorPosition(k, opened, closed) == k - (opened + closed)

\* the index a constant is replaced with (line 189), after the append of line 188
ConstantIndexOffByOne(pre) == Len(pre)
ConstantIndex(pre) == Len(pre) - 1

\* the test of line 179, after the increment of line 178
CloseWithoutOpenOffByOne(opened, closed) == opened - closed <= 0
CloseWithoutOpen(opened, closed) == opened - closed < 0

\* the test of line 190
Unclosed(opened, closed) == opened - closed # 0

ScanToken ==
    /\ pc = "scan"
    /\ i < Len(tokens)
    /\ LET t == tokens[i + 1] IN
       /\ open_braces' =
              IF t.type = "BraceToken" /\ t.which = OPEN THEN open_braces + 1 ELSE open_braces
       /\ close_braces' =
              IF t.type = "BraceToken" /\ t.which # OPEN THEN close_braces + 1 ELSE close_braces
       /\ IF t.type = "BraceToken" /\ t.which # OPEN
             /\ CloseWithoutOpen(open_braces, close_braces')
          THEN /\ pc' = "raised"
               /\ raised' = "ParseError: close brace without open"
               /\ i' = i
          ELSE /\ pc' = pc
               /\ raised' = raised
               /\ i' = i + 1
       /\ operators_data' =
              IF t.type = "OperatorToken"
              THEN Append(operators_data,
                          <<open_braces - close_braces,
                            OperatorPosition(i, open_braces, close_braces)>>)
              ELSE operators_data
       /\ heap' =
              IF t.type = "ConstantToken"
              THEN [heap EXCEPT !["precalculated"] = Append(@, t.value)]
              ELSE heap
       /\ tokens_without_braces' =
              CASE t.type = "OperatorToken" -> Append(tokens_without_braces, TokenSlot(i + 1))
                [] t.type = "VariableToken" -> Append(tokens_without_braces, TokenSlot(i + 1))
                [] t.type = "ConstantToken" ->
                       Append(tokens_without_braces, IntSlot(ConstantIndex(heap'["precalculated"])))
                [] OTHER -> tokens_without_braces
    /\ UNCHANGED <<tokens, calculation_order, operators_with_arguments,
                   calculation_index, returned, call, splitVars>>

(***************************************************************************)
(* The end of the first loop, and calculation_order (lines 190-201).       *)
(***************************************************************************)
\* the tuple a < the tuple b, as Python compares tuples of three numbers
TupleLess(a, b) ==
    \/ a[1] < b[1]
    \/ a[1] = b[1] /\ a[2] < b[2]
    \/ a[1] = b[1] /\ a[2] = b[2] /\ a[3] < b[3]

\* the sort key of lines 195-199, for an entry of operators_data
SortKeyPositionNotNegated(twb, data) ==
    <<data[1], -OperatorOf(tokens[PyGet(twb, data[2]).tok].operator).priority, data[2]>>
SortKey(twb, data) ==
    <<data[1], -OperatorOf(tokens[PyGet(twb, data[2]).tok].operator).priority, -data[2]>>

\* sorted(..., reverse=True): x goes before the first entry with a smaller key
RECURSIVE Insert(_, _, _)
Insert(twb, x, sorted) ==
    IF sorted = <<>> THEN <<x>>
    ELSE IF TupleLess(SortKey(twb, Head(sorted)), SortKey(twb, x))
         THEN <<x>> \o sorted
         ELSE <<Head(sorted)>> \o Insert(twb, x, Tail(sorted))

RECURSIVE Sorted(_, _)
Sorted(twb, data) ==
    IF data = <<>> THEN <<>>
    ELSE Insert(twb, data[Len(data)], Sorted(twb, SubSeq(data, 1, Len(data) - 1)))

EndScan ==
    /\ pc = "scan"
    /\ i = Len(tokens)
    /\ IF Unclosed(open_braces, close_braces)
       THEN /\ pc' = "raised"
            /\ raised' = "ParseError: not all open braces have pair close brace"
            /\ calculation_order' = calculation_order
       ELSE /\ pc' = "resolve"
            /\ raised' = raised
            /\ calculation_order' =
                   LET sorted == Sorted(tokens_without_braces, operators_data) IN
                   [k \in 1..Len(sorted) |-> sorted[k][2]]
    /\ UNCHANGED <<tokens, i, open_braces, close_braces, operators_data,
                   tokens_without_braces, operators_with_arguments,
                   calculation_index, returned, heap, call, splitVars>>

(***************************************************************************)
(* The second loop (lines 203-221): one operator per step.                 *)
(***************************************************************************)
\* the while loop of update_last_calc (lines 206-208); twb[k] with k below
\* -len(twb) is an IndexError
RECURSIVE UpdateLoop(_, _, _, _, _)
UpdateLoop(twb, k, side, old_value, calc) ==
    IF ~(k < Len(twb)) THEN [ok |-> TRUE, twb |-> twb]
    ELSE IF PyOutOfRange(twb, k) THEN [ok |-> FALSE, twb |-> twb]
    ELSE IF PyGet(twb, k) = old_value
         THEN UpdateLoop(PySet(twb, k, IntSlot(calc)), k + side, side, old_value, calc)
         ELSE [ok |-> TRUE, twb |-> twb]

\* a propagation that stops at the neighbouring slot
update_neighbour_only(twb, operator_index, side, calc) ==
    IF PyOutOfRange(twb, operator_index + side) THEN [ok |-> FALSE, twb |-> twb]
    ELSE [ok |-> TRUE, twb |-> PySet(twb, operator_index + side, IntSlot(calc))]

update_last_calc(twb, operator_index, side, calc) ==
    IF PyOutOfRange(twb, operator_index + side) THEN [ok |-> FALSE, twb |-> twb]
    ELSE UpdateLoop(twb, operator_index + side, side,
                    PyGet(twb, operator_index + side), calc)

\* the index of the left operand of a binary operator (line 218)
LeftIndex(operator_index) == operator_index - 1
\* the index of the right operand of an operator (lines 214, 218)
RightIndex(operator_index) == operator_index + 1

\* the index of the result of the instruction recorded now (lines 215, 219-221)
ResultIndex(calc_index, pre) == calc_index + Len(pre)

\* An entry of operators_with_arguments: the pair (operator, arguments) of the
\* code, with two history fields the code does not keep: `at`, the position of
\* the operator, and `from`, the positions the arguments were read at.
Instruction(operator, args, at, from) ==
    [operator |-> operator, args |-> args, at |-> at, from |-> from]

\* one iteration of the loop of line 210 on the list twb
ResolveStep(twb, operator_index, result) ==
    LET slot == PyGet(twb, operator_index)
        fail(e) == [raised |-> e, twb |-> twb, entry |-> <<>>]
    IN
    IF slot.isint THEN fail("AttributeError")
    ELSE
    LET operator == OperatorOf(tokens[slot.tok].operator)
        l == LeftIndex(operator_index)
        r == RightIndex(operator_index)
    IN
    IF operator.type = 1
    THEN IF PyOutOfRange(twb, r) THEN fail("IndexError")
         ELSE LET u == update_last_calc(twb, operator_index, 1, result) IN
              IF ~u.ok THEN fail("IndexError")
              ELSE [raised |-> "",
                    twb |-> PySet(u.twb, operator_index, IntSlot(result)),
                    entry |-> <<Instruction(operator.name, <<PyGet(twb, r)>>,
                                            operator_index, <<PyPos(twb, r)>>)>>]
    ELSE IF PyOutOfRange(twb, l) \/ PyOutOfRange(twb, r) THEN fail("IndexError")
         ELSE LET u == update_last_calc(twb, operator_index, 1, result) IN
              IF ~u.ok THEN fail("IndexError")
              ELSE LET v == update_last_calc(u.twb, operator_index, -1, result) IN
                   IF ~v.ok THEN fail("IndexError")
                   ELSE [raised |-> "",
                         twb |-> PySet(v.twb, operator_index, IntSlot(result)),
                         entry |-> <<Instruction(operator.name,
                                                 <<PyGet(twb, l), PyGet(twb, r)>>,
                                                 operator_index,
                                                 <<PyPos(twb, l), PyPos(twb, r)>>)>>]

ResolveOperator ==
    /\ pc = "resolve"
    /\ calculation_index < Len(calculation_order)
    /\ LET step == ResolveStep(tokens_without_braces,
                               calculation_order[calculation_index + 1],
                               ResultIndex(calculation_index, precalculated))
       IN
       /\ raised' = step.raised
       /\ pc' = IF step.raised = "" THEN pc ELSE "raised"
       /\ tokens_without_braces' = step.twb
       /\ operators_with_arguments' = operators_with_arguments \o step.entry
       /\ calculation_index' = IF step.raised = "" THEN calculation_index + 1
                               ELSE calculation_index
    /\ UNCHANGED <<tokens, i, open_braces, close_braces, operators_data,
                   calculation_order, returned, heap, call, splitVars>>

\* line 222: ParsedExpression(operators_with_arguments, precalculated)
Return ==
    /\ pc = "resolve"
    /\ calculation_index = Len(calculation_order)
    /\ pc' = "parsed"
    /\ returned' = [operations |-> operators_with_arguments,
                    precalculated |-> precalculated]
    /\ UNCHANGED <<tokens, i, open_braces, close_braces, operators_data,
                   tokens_without_braces, calculation_order,
                   operators_with_arguments, calculation_index, raised,
                   heap, call, splitVars>>

(***************************************************************************)
(* Spec: parse on every token sequence of at most MaxTokens tokens.        *)
(***************************************************************************)
\* every sequence over `alphabet` of at most `len` elements
SeqsUpTo(alphabet, len) == UNION {[1..k -> alphabet] : k \in 0..len}

TokenAlphabet ==
    {BraceToken(OPEN), BraceToken(CLOSE), VariableToken("a"),
     ConstantToken(2), ConstantToken(3),
     OperatorToken("minus"), OperatorToken("mul"), OperatorToken("not")}

Init == InitParse(SeqsUpTo(TokenAlphabet, MaxTokens))

Next == ScanToken \/ EndScan \/ ResolveOperator \/ Return

Spec == Init /\ [][Next]_vars

(***************************************************************************)
(* SpecWF: parse on every well-formed expression of at most MaxExprLen     *)
(* tokens:  E ::= operand | ( E ) | unary E | E binary E.                  *)
(***************************************************************************)
OperandTokens == {VariableToken("a"), ConstantToken(2)}
UnaryTokens == {OperatorToken("not")}
BinaryTokens == {OperatorToken("mul"), OperatorToken("minus"), OperatorToken("impl")}

RECURSIVE WellFormedOfLen(_)
WellFormedOfLen(len) ==
    IF len < 1 THEN {}
    ELSE IF len = 1 THEN {<<t>> : t \in OperandTokens}
    ELSE {<<BraceToken(OPEN)>> \o e \o <<BraceToken(CLOSE)>> : e \in WellFormedOfLen(len - 2)}
         \cup {<<u>> \o e : u \in UnaryTokens, e \in WellFormedOfLen(len - 1)}
         \cup UNION {{l \o <<b>> \o r : l \in WellFormedOfLen(k), b \in BinaryTokens,
                                        r \in WellFormedOfLen(len - 1 - k)} :
                     k \in 1..(len - 2)}

WellFormed == UNION {WellFormedOfLen(len) : len \in 1..MaxExprLen}

InitWF == InitParse(WellFormed)

SpecWF == InitWF /\ [][Next]_vars

(***************************************************************************)
(* ParsedExpression.__call__ (lines 100-105), one caller per frame.        *)
(* self.operations is the list operators_with_arguments and                *)
(* self.precalculated the list object "precalculated" (line 222 passes     *)
(* both lists themselves).                                                 *)
(***************************************************************************)
Values == {1, 2}
\* **kwargs: per name, whether it is a key and its value
Bindings == [VarNames -> {Unbound} \cup {[has |-> TRUE, value |-> v] : v \in Values}]

\* deepcopy(self.precalculated) is a new list object: the caller's own.
\* A calc stack kept in one place for all callers:
deepcopy_shared(obj, fresh) == "c1"
\* No copy at all:
deepcopy_alias(obj, fresh) == obj
deepcopy(obj, fresh) == fresh

\* line 101
CallBegin(c) ==
    /\ pc = "parsed"
    /\ call[c].pc \in {"idle", "returned", "raised"}
    /\ \E kwargs \in Bindings :
           LET ref == deepcopy("precalculated", c) IN
           /\ heap' = [heap EXCEPT ![ref] = heap["precalculated"]]
           /\ call' = [call EXCEPT ![c] = [pc |-> "loop", kwargs |-> kwargs,
                                           calc_stack |-> ref, ip |-> 0,
                                           result |-> 0, raised |-> ""]]
    /\ UNCHANGED <<parseVars, splitVars>>

\* one argument of line 104: [raised, value]
Param(param, calc_stack, kwargs) ==
    IF param.isint
    THEN IF PyOutOfRange(calc_stack, param.int)
         THEN [raised |-> "IndexError", value |-> 0]
         ELSE [raised |-> "", value |-> PyGet(calc_stack, param.int)]
    ELSE IF tokens[param.tok].type # "VariableToken"
         THEN [raised |-> "AttributeError", value |-> 0]
         ELSE IF ~kwargs[tokens[param.tok].name].has
              THEN [raised |-> "KeyError", value |-> 0]
              ELSE [raised |-> "", value |-> kwargs[tokens[param.tok].name].value]

\* lines 103-104 for one operation: the value to append, or the first
\* exception that an argument raises, from left to right
Operation(operation, calc_stack, kwargs) ==
    LET params == [a \in 1..Len(operation.args) |->
                      Param(operation.args[a], calc_stack, kwargs)]
        failed == {a \in 1..Len(params) : params[a].raised # ""}
    IN
    IF failed # {}
    THEN [raised |-> params[CHOOSE a \in failed : \A b \in failed : a <= b].raised,
          value |-> 0]
    ELSE [raised |-> "",
          value |-> Func(operation.operator, [a \in 1..Len(params) |-> params[a].value])]

\* one iteration of the loop of line 102
CallStep(c) ==
    /\ call[c].pc = "loop"
    /\ call[c].ip < Len(operators_with_arguments)
    /\ LET frame == call[c]
           done == Operation(operators_with_arguments[frame.ip + 1],
                             heap[frame.calc_stack], frame.kwargs)
       IN
       IF done.raised # ""
       THEN /\ call' = [call EXCEPT ![c].pc = "raised", ![c].raised = done.raised]
            /\ heap' = heap
       ELSE /\ call' = [call EXCEPT ![c].ip = @ + 1]
            /\ heap' = [heap EXCEPT ![frame.calc_stack] = Append(@, done.value)]
    /\ UNCHANGED <<parseVars, splitVars>>

\* line 105
CallReturn(c) ==
    /\ call[c].pc = "loop"
    /\ call[c].ip = Len(operators_with_arguments)
    /\ LET calc_stack == heap[call[c].calc_stack] IN
       IF PyOutOfRange(calc_stack, -1)
       THEN call' = [call EXCEPT ![c].pc = "raised", ![c].raised = "IndexError"]
       ELSE call' = [call EXCEPT ![c].pc = "returned",
                                 ![c].result = PyGet(calc_stack, -1)]
    /\ UNCHANGED <<parseVars, heap, splitVars>>

\* __call__ run by one caller alone: the calc stack after k operations
RECURSIVE StackAfter(_, _, _, _)
StackAfter(operations, pre, kwargs, k) ==
    IF k = 0 THEN [raised |-> "", calc_stack |-> pre]
    ELSE LET before == StackAfter(operations, pre, kwargs, k - 1) IN
         IF before.raised # "" THEN before
         ELSE LET done == Operation(operations[k], before.calc_stack, kwargs) IN
              IF done.raised # ""
              THEN [raised |-> done.raised, calc_stack |-> before.calc_stack]
              ELSE [raised |-> "", calc_stack |-> Append(before.calc_stack, done.value)]

\* __call__ run by one caller alone: how it ends
RunAlone(operations, pre, kwargs) ==
    LET end == StackAfter(operations, pre, kwargs, Len(operations)) IN
    IF end.raised # "" THEN [pc |-> "raised", raised |-> end.raised, result |-> 0]
    ELSE IF PyOutOfRange(end.calc_stack, -1)
         THEN [pc |-> "raised", raised |-> "IndexError", result |-> 0]
         ELSE [pc |-> "returned", raised |-> "", result |-> PyGet(end.calc_stack, -1)]

(***************************************************************************)
(* SpecCall: parse on every token sequence of at most MaxCallTokens        *)
(* tokens, and then invocations of the result by the callers, their steps  *)
(* interleaved; a caller may invoke again.                                 *)
(***************************************************************************)
CallAlphabet ==
    {VariableToken("a"), ConstantToken(2),
     OperatorToken("minus"), OperatorToken("not")}

InitCall == InitParse(SeqsUpTo(CallAlphabet, MaxCallTokens))

NextCall ==
    \/ Next
    \/ \E c \in Callers : CallBegin(c) \/ CallStep(c) \/ CallReturn(c)

SpecCall == InitCall /\ [][NextCall]_vars

(***************************************************************************)
(* Parser.split (lines 132-159) with Parser.to_token (lines 117-130), one  *)
(* character of s + " " per step.  operators_signs is the dict of line     *)
(* 114 as the sequence of its items, in insertion order.                   *)
(***************************************************************************)
Whitespace == {" "}
Digits == "0123456789"

Char(str, k) == SubSeq(str, k, k)

\* str.isspace()
isspace(str) == str # "" /\ \A k \in 1..Len(str) : Char(str, k) \in Whitespace

\* str[-k:] and str[:-k] for k = len(sign)
PySuffix(str, k) == IF k = 0 \/ k >= Len(str) THEN str
                    ELSE SubSeq(str, Len(str) - k + 1, Len(str))
PyPrefix(str, k) == IF k = 0 \/ k >= Len(str) THEN ""
                    ELSE SubSeq(str, 1, Len(str) - k)

\* Defaults.integers_decimal: the pattern [0-9]{1,}$ and int.  The other
\* constant types of Defaults need a digit or one of True, False, true, false.
DigitValue(d) == CHOOSE v \in 0..9 : Char(Digits, v + 1) = d
IsDecimal(str) ==
    str # "" /\ \A k \in 1..Len(str) : \E v \in 0..9 : Char(Digits, v + 1) = Char(str, k)
RECURSIVE int(_)
int(str) == IF str = "" THEN 0
            ELSE 10 * int(SubSeq(str, 1, Len(str) - 1)) + DigitValue(Char(str, Len(str)))

\* Parser.__init__ (lines 113-115) for operators of one sign each
Registered(signs) ==
    [k \in 1..Len(signs) |-> Operator("op" \o signs[k], 2, <<signs[k]>>, k)]
SignItems(operators) ==
    [k \in 1..Len(operators) |-> [sign |-> operators[k].signs[1],
                                  operator |-> operators[k].name]]
operators_names == {operators_signs[k].operator : k \in 1..Len(operators_signs)}
Signs == {operators_signs[k].sign : k \in 1..Len(operators_signs)}
SignOperator(sign) ==
    operators_signs[CHOOSE k \in 1..Len(operators_signs) : operators_signs[k].sign = sign].operator

to_token(token) ==
    IF token = "(" THEN BraceToken(OPEN)
    ELSE IF token = ")" THEN BraceToken(CLOSE)
    ELSE IF token \in operators_names THEN OperatorToken(token)
    ELSE IF token \in Signs THEN OperatorToken(SignOperator(token))
    ELSE IF IsDecimal(token) THEN ConstantToken(int(token))
    ELSE VariableToken(token)

\* append_token (lines 136-138)
append_token(tokenlist, str) ==
    IF ~isspace(str) /\ str # "" THEN Append(tokenlist, to_token(str)) ELSE tokenlist

\* the loop of lines 154-158: the first sign, in the order of the dict, that
\* current ends with; 0 when there is none
FirstSuffixSign(current) ==
    LET hits == {k \in 1..Len(operators_signs) :
                    PySuffix(current, Len(operators_signs[k].sign)) = operators_signs[k].sign}
    IN IF hits = {} THEN 0 ELSE CHOOSE k \in hits : \A l \in hits : k <= l

\* one iteration of the loop of line 141
SplitChar ==
    /\ pc = "split"
    /\ n < Len(s) + 1
    /\ LET c == Char(s \o " ", n + 1) IN
       IF isspace(c) \/ c \in {"(", ")"}
       THEN /\ ret' = append_token(append_token(ret, current_token), c)
            /\ current_token' = ""
       ELSE IF current_token \in Signs
       THEN IF (current_token \o c) \in Signs
            THEN /\ current_token' = current_token \o c
                 /\ ret' = ret
            ELSE /\ ret' = append_token(ret, current_token)
                 /\ current_token' = c
       ELSE LET k == FirstSuffixSign(current_token \o c) IN
            IF k = 0
            THEN /\ current_token' = current_token \o c
                 /\ ret' = ret
            ELSE /\ ret' = append_token(ret, PyPrefix(current_token \o c,
                                                      Len(operators_signs[k].sign)))
                 /\ current_token' = operators_signs[k].sign
    /\ n' = n + 1
    /\ UNCHANGED <<parseVars, heap, call, s, operators_signs>>

\* line 159
SplitReturn ==
    /\ pc = "split"
    /\ n = Len(s) + 1
    /\ pc' = "split_done"
    /\ UNCHANGED <<tokens, i, open_braces, close_braces, operators_data,
                   tokens_without_braces, calculation_order,
                   operators_with_arguments, calculation_index, raised, returned,
                   heap, call, splitVars>>

(***************************************************************************)
(* SpecSplit: split on every text of at most MaxText characters, for every *)
(* table that registers some of the signs "-", ">" and "->" in some order. *)
(***************************************************************************)
TextChars == {"a", "2", " ", "(", ")", "-", ">"}
SignUniverse == {"-", ">", "->"}

RECURSIVE Texts(_)
Texts(len) == IF len = 0 THEN {""}
              ELSE Texts(len - 1) \cup {str \o c : str \in Texts(len - 1), c \in TextChars}

\* the orders in which some of the signs can be registered
SignTables ==
    {signs \in SeqsUpTo(SignUniverse, Cardinality(SignUniverse)) :
        /\ signs # <<>>
        /\ \A k, l \in 1..Len(signs) : k # l => signs[k] # signs[l]}

InitSplit ==
    /\ s \in Texts(MaxText)
    /\ \E signs \in SignTables : operators_signs = SignItems(Registered(signs))
    /\ current_token = ""
    /\ ret = <<>>
    /\ n = 0
    /\ pc = "split"
    /\ tokens = <<>>
    /\ i = 0
    /\ open_braces = 0
    /\ close_braces = 0
    /\ operators_data = <<>>
    /\ tokens_without_braces = <<>>
    /\ calculation_order = <<>>
    /\ operators_with_arguments = <<>>
    /\ calculation_index = 0
    /\ raised = ""
    /\ returned = [operations |-> <<>>, precalculated |-> <<>>]
    /\ heap = [o \in Objects |-> <<>>]
    /\ call = [c \in Callers |-> IdleFrame]

NextSplit == SplitChar \/ SplitReturn

SpecSplit == InitSplit /\ [][NextSplit]_vars

(***************************************************************************)
(* What the claims speak of, read off the token sequence itself.           *)
(***************************************************************************)
CloseBraceWithoutOpen == "ParseError: close brace without open"
UnclosedOpenBrace == "ParseError: not all open braces have pair close brace"

Finished == pc \in {"parsed", "raised"}

IsBrace(t, which) == t.type = "BraceToken" /\ t.which = which
\* open and close braces among the first k tokens
Opens(k) == Cardinality({j \in 1..k : IsBrace(tokens[j], OPEN)})
Closes(k) == Cardinality({j \in 1..k : IsBrace(tokens[j], CLOSE)})
SomePrefixOverClosed == \E k \in 1..Len(tokens) : Closes(k) > Opens(k)

\* the tokens that are no braces, as indexes into tokens, in order
NonBraces == {j \in 1..Len(tokens) : tokens[j].type # "BraceToken"}
\* the index in tokens of position p (from 0) of the brace-stripped sequence
TokenIndex(p) == CHOOSE j \in NonBraces :
                     Cardinality({k \in NonBraces : k < j}) = p
StrippedLen == Cardinality(NonBraces)
\* the positions (from 0) of the operators in the brace-stripped sequence
OperatorPositions ==
    {p \in 0..(StrippedLen - 1) : tokens[TokenIndex(p)].type = "OperatorToken"}
DepthAt(p) == Opens(TokenIndex(p)) - Closes(TokenIndex(p))
PriorityAt(p) == OperatorOf(tokens[TokenIndex(p)].operator).priority
ArityAt(p) == OperatorOf(tokens[TokenIndex(p)].operator).type
\* the constant tokens, as indexes into tokens
Constants == {j \in 1..Len(tokens) : tokens[j].type = "ConstantToken"}
\* the j-th token is the k-th constant token (k from 1)
ConstantRank(j) == Cardinality({k \in Constants : k <= j})
Range(f) == {f[x] : x \in DOMAIN f}

(***************************************************************************)
(* C1.  parse raises the close-brace-without-open error exactly when some  *)
(* prefix of the tokens holds more close than open braces; otherwise it    *)
(* raises the unclosed-open-brace error exactly when the totals differ;    *)
(* a balanced sequence raises no ParseError.                               *)
(***************************************************************************)
C1_BraceErrors ==
    Finished =>
        /\ raised = CloseBraceWithoutOpen <=> SomePrefixOverClosed
        /\ raised = UnclosedOpenBrace <=>
               /\ ~SomePrefixOverClosed
               /\ Opens(Len(tokens)) # Closes(Len(tokens))

\* a close brace before its open brace is refused although the totals agree
C1_Witness ==
    /\ raised = CloseBraceWithoutOpen
    /\ Opens(Len(tokens)) = Closes(Len(tokens))
    /\ \E j \in 1..Len(tokens) : tokens[j].type = "OperatorToken"

(***************************************************************************)
(* C3.  The order of resolution.  An operator resolved earlier than        *)
(* another is deeper in the braces, or at equal depth has the lower        *)
(* priority number, or at equal depth and priority stands to the LEFT of   *)
(* it; calculation_order lists every operator occurrence once and the      *)
(* instructions are recorded in that order.                                *)
(***************************************************************************)
ResolvedBeforeLeftFirst(p, q) ==
    \/ DepthAt(p) > DepthAt(q)
    \/ DepthAt(p) = DepthAt(q) /\ PriorityAt(p) < PriorityAt(q)
    \/ DepthAt(p) = DepthAt(q) /\ PriorityAt(p) = PriorityAt(q) /\ p < q

ResolvedBeforeRightFirst(p, q) ==
    \/ DepthAt(p) > DepthAt(q)
    \/ DepthAt(p) = DepthAt(q) /\ PriorityAt(p) < PriorityAt(q)
    \/ DepthAt(p) = DepthAt(q) /\ PriorityAt(p) = PriorityAt(q) /\ p > q

OrderIsTotal ==
    /\ Range(calculation_order) = OperatorPositions
    /\ Len(calculation_order) = Cardinality(OperatorPositions)
    /\ \A k \in 1..Len(operators_with_arguments) :
           operators_with_arguments[k].at = calculation_order[k]

C3_LeftmostFirst ==
    (pc \in {"resolve", "parsed"}) =>
        /\ OrderIsTotal
        /\ \A k, l \in 1..Len(calculation_order) :
               k < l => ResolvedBeforeLeftFirst(calculation_order[k], calculation_order[l])

\* two instructions of equal depth and priority were recorded, the left one first
C3_Witness ==
    /\ pc = "parsed"
    /\ \E k, l \in 1..Len(operators_with_arguments) :
           /\ k < l
           /\ DepthAt(operators_with_arguments[k].at) = DepthAt(operators_with_arguments[l].at)
           /\ PriorityAt(operators_with_arguments[k].at) = PriorityAt(operators_with_arguments[l].at)
           /\ operators_with_arguments[k].at < operators_with_arguments[l].at

\* the claim as stated: among equal depth and priority the rightmost comes first
C3_RightmostFirst ==
    (pc \in {"resolve", "parsed"}) =>
        /\ OrderIsTotal
        /\ \A k, l \in 1..Len(calculation_order) :
               k < l => ResolvedBeforeRightFirst(calculation_order[k], calculation_order[l])

(***************************************************************************)
(* C7.  precalculated is the values of the constant tokens from left to    *)
(* right, one entry per occurrence; the i-th constant token is referenced  *)
(* by the instructions through the index i-1 only, and no argument of an   *)
(* instruction is the constant token itself.                               *)
(***************************************************************************)
C7_ConstantPool ==
    pc = "parsed" =>
        /\ Len(returned.precalculated) = Cardinality(Constants)
        /\ \A j \in Constants :
               returned.precalculated[ConstantRank(j)] = tokens[j].value
        /\ \A k \in 1..Len(returned.operations) :
               LET e == returned.operations[k] IN
               \A a \in 1..Len(e.args) :
                   LET j == TokenIndex(e.from[a]) IN
                   /\ ~e.args[a].isint => tokens[e.args[a].tok].type # "ConstantToken"
                   /\ (e.args[a].isint /\ e.args[a].int < Len(returned.precalculated)) =>
                          /\ tokens[j].type = "ConstantToken"
                          /\ ConstantRank(j) = e.args[a].int + 1

\* an instruction consumes the second of two constants of different values
C7_Witness ==
    /\ pc = "parsed"
    /\ Len(returned.precalculated) >= 2
    /\ returned.precalculated[1] # returned.precalculated[2]
    /\ \E k \in 1..Len(returned.operations) :
           \E a \in 1..Len(returned.operations[k].args) :
               /\ returned.operations[k].args[a].isint
               /\ returned.operations[k].args[a].int = 1

(***************************************************************************)
(* C9.  Whenever parse returns, every instruction takes exactly `arity`    *)
(* arguments, a unary operator at position p from slot p+1 and a binary    *)
(* one from slots p-1 and p+1, and no argument is an operator token.       *)
(***************************************************************************)
C9_AdjacentOperands ==
    pc = "parsed" =>
        \A k \in 1..Len(returned.operations) :
            LET e == returned.operations[k] IN
            /\ Len(e.args) = ArityAt(e.at)
            /\ e.from = IF ArityAt(e.at) = 1 THEN <<e.at + 1>>
                        ELSE <<e.at - 1, e.at + 1>>
            /\ \A a \in 1..Len(e.args) :
                   e.args[a].isint \/ tokens[e.args[a].tok].type = "VariableToken"

(***************************************************************************)
(* C8.  Operand propagation leaves no stale reference.  For a well-formed  *)
(* expression the k-th instruction (k from 0) is given the result index    *)
(* len(precalculated)+k, its integer arguments are smaller than that       *)
(* index, and in the list parse returns every index of the value space but *)
(* the last is an argument of exactly one instruction.                     *)
(***************************************************************************)
\* the places (instruction, argument) of the returned list that hold index x
Uses(x) ==
    {ka \in (1..Len(returned.operations)) \X {1, 2} :
        /\ ka[2] <= Len(returned.operations[ka[1]].args)
        /\ returned.operations[ka[1]].args[ka[2]] = IntSlot(x)}

C8_NoStaleReference ==
    /\ (pc \in {"resolve", "parsed"} /\ operators_with_arguments # <<>>) =>
           LET k == Len(operators_with_arguments) IN
           /\ PyGet(tokens_without_braces, operators_with_arguments[k].at)
                  = IntSlot(Len(precalculated) + k - 1)
           /\ \A a \in 1..Len(operators_with_arguments[k].args) :
                  operators_with_arguments[k].args[a].isint =>
                      operators_with_arguments[k].args[a].int < Len(precalculated) + k - 1
    /\ pc = "parsed" =>
           LET size == Len(returned.precalculated) + Len(returned.operations) IN
           /\ \A x \in 0..(size - 2) : Cardinality(Uses(x)) = 1
           /\ size >= 1 => Uses(size - 1) = {}

\* an instruction consumes an intermediate result through a slot other than
\* the slot of the operator that produced it: the index was propagated
C8_Witness ==
    /\ pc = "parsed"
    /\ Len(returned.operations) >= 3
    /\ \E k \in 1..Len(returned.operations) :
           \E a \in 1..Len(returned.operations[k].args) :
               LET arg == returned.operations[k].args[a]
                   producer == arg.int - Len(returned.precalculated) + 1
               IN
               /\ arg.isint
               /\ producer >= 1
               /\ returned.operations[k].from[a] # returned.operations[producer].at

(***************************************************************************)
(* The reference evaluation of an expression of operands, binary operators *)
(* and balanced braces: a braced sub-expression first, the lower priority  *)
(* number binds tighter, equal priorities group from left to right.        *)
(***************************************************************************)
IsOperand(t) == t.type \in {"VariableToken", "ConstantToken"}
IsBinary(t) == t.type = "OperatorToken" /\ OperatorOf(t.operator).type = 2

\* the depth of the braces of seq after its first k tokens
BraceDepth(seq, k) ==
    Cardinality({j \in 1..k : IsBrace(seq[j], OPEN)})
        - Cardinality({j \in 1..k : IsBrace(seq[j], CLOSE)})

\* seq is ( e ) with the first brace closed by the last
Wrapped(seq) ==
    /\ Len(seq) >= 3
    /\ IsBrace(seq[1], OPEN)
    /\ IsBrace(seq[Len(seq)], CLOSE)
    /\ \A k \in 1..(Len(seq) - 1) : BraceDepth(seq, k) > 0
    /\ BraceDepth(seq, Len(seq)) = 0

\* the binary operators of seq outside every brace
TopOperators(seq) == {k \in 1..Len(seq) : IsBinary(seq[k]) /\ BraceDepth(seq, k) = 0}

RECURSIVE IsExpression(_)
IsExpression(seq) ==
    \/ Len(seq) = 1 /\ IsOperand(seq[1])
    \/ Wrapped(seq) /\ IsExpression(SubSeq(seq, 2, Len(seq) - 1))
    \/ \E k \in TopOperators(seq) :
           /\ IsExpression(SubSeq(seq, 1, k - 1))
           /\ IsExpression(SubSeq(seq, k + 1, Len(seq)))

\* the operator applied last: the loosest outside the braces, the rightmost of those
LastApplied(seq) ==
    CHOOSE k \in TopOperators(seq) :
        \A l \in TopOperators(seq) :
            \/ OperatorOf(seq[l].operator).priority < OperatorOf(seq[k].operator).priority
            \/ OperatorOf(seq[l].operator).priority = OperatorOf(seq[k].operator).priority
                   /\ l <= k

RECURSIVE Reference(_, _)
Reference(seq, kwargs) ==
    IF Len(seq) = 1
    THEN IF seq[1].type = "ConstantToken" THEN seq[1].value ELSE kwargs[seq[1].name].value
    ELSE IF Wrapped(seq) THEN Reference(SubSeq(seq, 2, Len(seq) - 1), kwargs)
    ELSE LET k == LastApplied(seq) IN
         Func(seq[k].operator, <<Reference(SubSeq(seq, 1, k - 1), kwargs),
                                 Reference(SubSeq(seq, k + 1, Len(seq)), kwargs)>>)

AllBound(kwargs) ==
    \A j \in 1..Len(tokens) : tokens[j].type = "VariableToken" => kwargs[tokens[j].name].has

Ended(c) == call[c].pc \in {"returned", "raised"}

(***************************************************************************)
(* C2.  Invoked with every variable bound, the compiled form of a          *)
(* well-formed expression of operands, binary operators and balanced       *)
(* braces returns the value of the reference evaluation.                   *)
(***************************************************************************)
C2_ReferenceValue ==
    \A c \in Callers :
        (Ended(c) /\ IsExpression(tokens) /\ AllBound(call[c].kwargs)) =>
            /\ call[c].pc = "returned"
            /\ call[c].result = Reference(tokens, call[c].kwargs)

(***************************************************************************)
(* C4.  Invocations never change the ParsedExpression: operations and      *)
(* precalculated stay what parse returned, whatever the invocations did    *)
(* (failures included), and two invocations with the same bindings end the *)
(* same way.                                                               *)
(***************************************************************************)
C4_InvocationIsPure ==
    pc = "parsed" =>
        /\ operators_with_arguments = returned.operations
        /\ precalculated = returned.precalculated
        /\ \A c, d \in Callers :
               (Ended(c) /\ Ended(d) /\ call[c].kwargs = call[d].kwargs) =>
                   /\ call[c].pc = call[d].pc
                   /\ call[c].result = call[d].result
                   /\ call[c].raised = call[d].raised

\* two invocations with the same bindings have returned, a third one is under
\* way, and the expression has constants and instructions
C4_Witness ==
    /\ pc = "parsed"
    /\ returned.precalculated # <<>>
    /\ Len(returned.operations) >= 2
    /\ call["c1"].pc = "returned"
    /\ call["c2"].pc = "returned"
    /\ call["c1"].kwargs = call["c2"].kwargs

(***************************************************************************)
(* C5.  Interleaved invocations do not interfere: every caller appends to  *)
(* a calc stack of its own, which no other caller and not precalculated    *)
(* is, that stack is at every step what it would be had the caller run     *)
(* alone, and so is the way the invocation ends.                           *)
(***************************************************************************)
C5_NoInterference ==
    pc = "parsed" =>
        /\ precalculated = returned.precalculated
        /\ \A c \in Callers :
               /\ call[c].pc = "loop" =>
                      /\ call[c].calc_stack = c
                      /\ heap[call[c].calc_stack]
                             = StackAfter(returned.operations, returned.precalculated,
                                          call[c].kwargs, call[c].ip).calc_stack
               /\ Ended(c) =>
                      [pc |-> call[c].pc, raised |-> call[c].raised, result |-> call[c].result]
                          = RunAlone(returned.operations, returned.precalculated,
                                     call[c].kwargs)

\* two invocations with different bindings are both in the middle of the
\* instruction list, at different instructions, with different calc stacks
C5_Witness ==
    /\ call["c1"].pc = "loop"
    /\ call["c2"].pc = "loop"
    /\ call["c1"].ip = 1
    /\ call["c2"].ip = 2
    /\ call["c1"].kwargs # call["c2"].kwargs
    /\ returned.precalculated # <<>>
    /\ heap["c1"][Len(heap["c1"])] # heap["c2"][Len(heap["c1"])]

(***************************************************************************)
(* C6.  An invocation whose bindings omit a variable of the expression     *)
(* fails with the lookup failure of the name (KeyError) and returns no     *)
(* value.                                                                  *)
(***************************************************************************)
C6_MissingVariable ==
    \A c \in Callers :
        (Ended(c) /\ ~AllBound(call[c].kwargs)) =>
            /\ call[c].pc = "raised"
            /\ call[c].raised = "KeyError"

(***************************************************************************)
(* C10.  split lexes signs by longest match without separators: a text     *)
(* x s y, s a registered sign and x, y non-empty runs of characters of no  *)
(* sign (and no blanks or braces), gives the three tokens x, the operator  *)
(* of s, y.                                                                *)
(***************************************************************************)
InSomeSign(c) == \E sign \in Signs : \E k \in 1..Len(sign) : Char(sign, k) = c
Plain(str) ==
    /\ str # ""
    /\ \A k \in 1..Len(str) :
           /\ ~InSomeSign(Char(str, k))
           /\ Char(str, k) \notin Whitespace \cup {"(", ")"}

C10_LongestSign ==
    pc = "split_done" =>
        \A p \in 2..Len(s) : \A q \in p..(Len(s) - 1) :
            LET x == SubSeq(s, 1, p - 1)
                sign == SubSeq(s, p, q)
                y == SubSeq(s, q + 1, Len(s))
            IN
            (sign \in Signs /\ Plain(x) /\ Plain(y)) =>
                ret = <<to_token(x), OperatorToken(SignOperator(sign)), to_token(y)>>

====
